---- MODULE Spec2Model ----
(***************************************************************************)
(* Model of the MythosConsole component of frontend/src/App.js: the React *)
(* state of the console (narratives, dreams, stats, loading, activeTab,   *)
(* newInteraction), the three asynchronous protocols loadMythosData,      *)
(* processInteraction and generateDream, and the gateway calls they have  *)
(* in flight.                                                              *)
(*                                                                         *)
(* JavaScript runs every synchronous stretch of a handler to completion,  *)
(* so one action is one such stretch: a click handler up to its first     *)
(* await, or the continuation that runs when an awaited promise settles.  *)
(* A continuation is a microtask of the event that settles the promise:   *)
(* the arrival of the (last) response, or of a failure, and the           *)
(* continuation are one step.  The remote service reading or changing its *)
(* data for a request is a separate, earlier step, so a response can be   *)
(* stale when it arrives.  React batches the set calls of one             *)
(* continuation into one render.  The effect of useEffect runs once per   *)
(* mount (production build, no double invocation).                        *)
(***************************************************************************)
EXTENDS Integers, Sequences, FiniteSets, TLC

(* Number of user-triggered operations (submissions, dream generations). *)
MaxOps == 2

Texts == {"", "Hi"}

Outcomes == {"success", "failure", "ambiguous"}

Tabs == {"narratives", "dreams", "create"}

GetEndpoints == {"narratives", "dreams", "stats"}

PostEndpoints == {"process", "dream"}

Endpoints == GetEndpoints \cup PostEndpoints

OpIds == 0..MaxOps

VARIABLES
  narratives,      \* useState([])  : ids of the fragments, head first
  dreams,          \* useState([])  : ids of the dreams, head first
  stats,           \* useState({})  : function from keys to values
  loading,         \* useState(true)
  activeTab,       \* useState('narratives')
  newInteraction,  \* useState({user_interaction:'', ai_response:'', outcome:'success'})
  ops,             \* the invocations of the async functions, by start order
  nextOp,          \* index of the next invocation
  srvNarratives,   \* the remote service's narrative list, newest first
  srvDreams,       \* the remote service's dream list, newest first
  console,         \* console.error: the number of calls, per message
  written          \* history: the operation that wrote last, and the values it delivered

vars == <<narratives, dreams, stats, loading, activeTab, newInteraction,
          ops, nextOp, srvNarratives, srvDreams, console, written>>

EmptyStats == [k \in {} |-> 0]

DefaultDraft == [user_interaction |-> "", ai_response |-> "", outcome |-> "success"]

NoReq == [e \in Endpoints |-> "none"]

NoOp == [kind |-> "none", phase |-> "none", req |-> NoReq,
         resN |-> <<>>, resD |-> <<>>, resS |-> EmptyStats, resP |-> 0,
         payload |-> DefaultDraft]

(* GET /mythology/stats as the remote service answers it. *)
ServerStats(ns, ds) ==
  IF Len(ns) > 0
  THEN [total_narratives |-> Len(ns), total_dreams |-> Len(ds), dominant_archetype |-> "Hero"]
  ELSE [total_narratives |-> Len(ns), total_dreams |-> Len(ds)]

(* The three axios.get calls handed to Promise.all. *)
IssueLoad(op) ==
  [op EXCEPT !.phase = "fetch",
             !.req = [e \in Endpoints |-> IF e \in GetEndpoints THEN "pending" ELSE "none"]]

(* setNarratives(narrativesRes.data), setDreams(dreamsRes.data) *)
SetList(prev, data) == data

(* Mutation: setStats(prev => ({...prev, ...statsRes.data})), a merge. *)
MergeStats(prev, data) ==
  [k \in DOMAIN prev \cup DOMAIN data |-> IF k \in DOMAIN data THEN data[k] ELSE prev[k]]

(* setStats(statsRes.data) *)
SetStats(prev, data) == data

(* Mutation: prev => [...prev, response.data], the new item last. *)
AppendItem(item, prev) == prev \o <<item>>

(* prev => [response.data, ...prev] *)
Prepend(item, prev) == <<item>> \o prev

(* Mutation: the early return is missing, the console is rendered while loading. *)
ConsoleRenderedAlways == TRUE

(* if (loading) return <loading screen>: no control is rendered. *)
ConsoleRendered == ~loading

(* Mutation: disabled only when both required fields are empty. *)
ProcessDisabledBoth(draft) == draft.user_interaction = "" /\ draft.ai_response = ""

(* disabled={!newInteraction.user_interaction || !newInteraction.ai_response} *)
ProcessDisabled(draft) == draft.user_interaction = "" \/ draft.ai_response = ""

(* Mutation: the empty states render their message without the shortcut button. *)
RenderedNoShortcut ==
  IF ~ConsoleRendered THEN {"loading-screen"}
  ELSE {"tab-narratives", "tab-dreams", "tab-create"}
       \cup (IF activeTab = "narratives"
             THEN IF Len(narratives) = 0 THEN {"no-narratives"} ELSE {"narrative-cards"}
             ELSE {})
       \cup (IF activeTab = "dreams"
             THEN {"generate-dream"}
                  \cup (IF Len(dreams) = 0 THEN {"no-dreams"} ELSE {"dream-cards"})
             ELSE {})
       \cup (IF activeTab = "create" THEN {"draft-form", "process-interaction"} ELSE {})

(* What the component returns: the loading screen alone, or the tab bar and   *)
(* the content of the active tab, with the empty state and its shortcut in    *)
(* place of the cards when the list of the tab is empty.                      *)
Rendered ==
  IF ~ConsoleRendered THEN {"loading-screen"}
  ELSE {"tab-narratives", "tab-dreams", "tab-create"}
       \cup (IF activeTab = "narratives"
             THEN IF Len(narratives) = 0
                  THEN {"no-narratives", "create-first-narrative"}
                  ELSE {"narrative-cards"}
             ELSE {})
       \cup (IF activeTab = "dreams"
             THEN {"generate-dream"}
                  \cup (IF Len(dreams) = 0 THEN {"no-dreams", "first-dream"} ELSE {"dream-cards"})
             ELSE {})
       \cup (IF activeTab = "create" THEN {"draft-form", "process-interaction"} ELSE {})

Init ==
  /\ narratives = <<>>
  /\ dreams = <<>>
  /\ stats = EmptyStats
  /\ loading = TRUE
  /\ activeTab = "narratives"
  /\ newInteraction = DefaultDraft
  /\ ops = [i \in OpIds |-> NoOp]
  /\ nextOp = 0
  /\ srvNarratives = <<>>
  /\ srvDreams = <<>>
  /\ console = [m \in {"load", "process", "dream"} |-> 0]
  /\ written = [op |-> -1, by |-> "init",
                narratives |-> <<>>, dreams |-> <<>>, stats |-> EmptyStats]

(* useEffect(() => { loadMythosData(); }, []) *)
Mount ==
  /\ nextOp = 0
  /\ ops' = [ops EXCEPT ![0] = IssueLoad([NoOp EXCEPT !.kind = "load"])]
  /\ nextOp' = 1
  /\ UNCHANGED <<narratives, dreams, stats, loading, activeTab, newInteraction,
                 srvNarratives, srvDreams, console, written>>

(* Mutation: switching the tab also clears the draft. *)
SelectTabResetDraft(tab) ==
  /\ ConsoleRendered
  /\ activeTab' = tab
  /\ newInteraction' = DefaultDraft
  /\ UNCHANGED <<narratives, dreams, stats, loading,
                 ops, nextOp, srvNarratives, srvDreams, console, written>>

(* onClick={() => setActiveTab(tab)} *)
SelectTab(tab) ==
  /\ ConsoleRendered
  /\ activeTab' = tab
  /\ UNCHANGED <<narratives, dreams, stats, loading, newInteraction,
                 ops, nextOp, srvNarratives, srvDreams, console, written>>

(* onChange of the two textareas and the select of the Create tab *)
EditDraft(field, value) ==
  /\ ConsoleRendered
  /\ activeTab = "create"
  /\ newInteraction' = [newInteraction EXCEPT ![field] = value]
  /\ UNCHANGED <<narratives, dreams, stats, loading, activeTab,
                 ops, nextOp, srvNarratives, srvDreams, console, written>>

(* processInteraction up to its first await: axios.post(.../process, newInteraction) *)
ProcessStart ==
  /\ nextOp \in 1..MaxOps
  /\ ops' = [ops EXCEPT ![nextOp] =
               [NoOp EXCEPT !.kind = "process", !.phase = "post",
                            !.req = [NoReq EXCEPT !["process"] = "pending"],
                            !.payload = newInteraction]]
  /\ nextOp' = nextOp + 1
  /\ UNCHANGED <<narratives, dreams, stats, loading, activeTab, newInteraction,
                 srvNarratives, srvDreams, console, written>>

(* The Process Interaction button: a disabled button fires no onClick. *)
ProcessButton ==
  /\ ConsoleRendered
  /\ activeTab = "create"
  /\ IF ProcessDisabled(newInteraction) THEN UNCHANGED vars ELSE ProcessStart

(* generateDream up to its first await: axios.post(.../dream) *)
DreamStart ==
  /\ nextOp \in 1..MaxOps
  /\ ops' = [ops EXCEPT ![nextOp] =
               [NoOp EXCEPT !.kind = "dream", !.phase = "post",
                            !.req = [NoReq EXCEPT !["dream"] = "pending"]]]
  /\ nextOp' = nextOp + 1
  /\ UNCHANGED <<narratives, dreams, stats, loading, activeTab, newInteraction,
                 srvNarratives, srvDreams, console, written>>

(* The Generate Dream button in the header of the Dreams tab. *)
DreamButton ==
  /\ ConsoleRendered
  /\ activeTab = "dreams"
  /\ DreamStart

(* The Create First Narrative button of the narratives empty state: *)
(* onClick={() => setActiveTab('create')}                           *)
CreateFirstNarrativeButton ==
  /\ "create-first-narrative" \in Rendered
  /\ activeTab' = "create"
  /\ UNCHANGED <<narratives, dreams, stats, loading, newInteraction,
                 ops, nextOp, srvNarratives, srvDreams, console, written>>

(* The First Dream button of the dreams empty state: onClick={generateDream} *)
FirstDreamButton ==
  /\ "first-dream" \in Rendered
  /\ DreamStart

(* Mutation: each GET applies its own response as soon as it has it. *)
ResolveGetEager(i, e) ==
  /\ e \in GetEndpoints
  /\ ops[i].req[e] = "pending"
  /\ ops' = [ops EXCEPT ![i] =
               [@ EXCEPT !.req[e] = "ok",
                         !.resN = IF e = "narratives" THEN srvNarratives ELSE @,
                         !.resD = IF e = "dreams" THEN srvDreams ELSE @,
                         !.resS = IF e = "stats" THEN ServerStats(srvNarratives, srvDreams) ELSE @]]
  /\ narratives' = IF e = "narratives" THEN srvNarratives ELSE narratives
  /\ dreams' = IF e = "dreams" THEN srvDreams ELSE dreams
  /\ stats' = IF e = "stats" THEN ServerStats(srvNarratives, srvDreams) ELSE stats
  /\ UNCHANGED <<loading, activeTab, newInteraction,
                 nextOp, srvNarratives, srvDreams, console, written>>

(* The remote service answers one of the GETs of operation i with its data as of now. *)
ResolveGet(i, e) ==
  /\ e \in GetEndpoints
  /\ ops[i].req[e] = "pending"
  /\ ops' = [ops EXCEPT ![i] =
               [@ EXCEPT !.req[e] = "ok",
                         !.resN = IF e = "narratives" THEN srvNarratives ELSE @,
                         !.resD = IF e = "dreams" THEN srvDreams ELSE @,
                         !.resS = IF e = "stats" THEN ServerStats(srvNarratives, srvDreams) ELSE @]]
  /\ UNCHANGED <<narratives, dreams, stats, loading, activeTab, newInteraction,
                 nextOp, srvNarratives, srvDreams, console, written>>

(* The remote service gives a new item the next identifier and lists it first. *)
ServerCreate(list) == <<Len(list) + 1>> \o list

(* The remote service creates the fragment or dream a POST asks for and answers with it. *)
ResolvePost(i, e) ==
  /\ e \in PostEndpoints
  /\ ops[i].req[e] = "pending"
  /\ IF e = "process"
     THEN /\ srvNarratives' = ServerCreate(srvNarratives)
          /\ ops' = [ops EXCEPT ![i] = [@ EXCEPT !.req[e] = "ok", !.resP = Len(srvNarratives) + 1]]
          /\ UNCHANGED srvDreams
     ELSE /\ srvDreams' = ServerCreate(srvDreams)
          /\ ops' = [ops EXCEPT ![i] = [@ EXCEPT !.req[e] = "ok", !.resP = Len(srvDreams) + 1]]
          /\ UNCHANGED srvNarratives
  /\ UNCHANGED <<narratives, dreams, stats, loading, activeTab, newInteraction,
                 nextOp, console, written>>

(* The async function returns: its locals (responses, captured draft) are gone. *)
Finish(op) == [NoOp EXCEPT !.phase = "done"]

(* Mutation: a response is dropped when a later operation has started a refresh. *)
LoadOkLatestOnly(i) ==
  /\ ops[i].phase = "fetch"
  /\ \A e \in GetEndpoints : ops[i].req[e] = "ok"
  /\ IF \E j \in OpIds : j > i /\ ops[j].phase \in {"fetch", "done"}
     THEN UNCHANGED <<narratives, dreams, stats>>
     ELSE /\ narratives' = ops[i].resN
          /\ dreams' = ops[i].resD
          /\ stats' = ops[i].resS
  /\ loading' = FALSE
  /\ ops' = [ops EXCEPT ![i] = [NoOp EXCEPT !.phase = "done"]]
  /\ written' = [op |-> i, by |-> "load",
                 narratives |-> ops[i].resN, dreams |-> ops[i].resD, stats |-> ops[i].resS]
  /\ UNCHANGED <<activeTab, newInteraction, nextOp, srvNarratives, srvDreams, console>>

(* loadMythosData when the last of the three responses arrives: Promise.all *)
(* fulfils and the four set calls of the try block run.                     *)
LoadOk(i) ==
  /\ ops[i].phase = "fetch"
  /\ \A e \in GetEndpoints : ops[i].req[e] = "ok"
  /\ narratives' = SetList(narratives, ops[i].resN)
  /\ dreams' = SetList(dreams, ops[i].resD)
  /\ stats' = SetStats(stats, ops[i].resS)
  /\ loading' = FALSE
  /\ ops' = [ops EXCEPT ![i] = Finish(@)]
  /\ written' = [op |-> i, by |-> "load",
                 narratives |-> ops[i].resN, dreams |-> ops[i].resD, stats |-> ops[i].resS]
  /\ UNCHANGED <<activeTab, newInteraction, nextOp, srvNarratives, srvDreams, console>>

(* Mutation: the catch block applies the responses that did arrive. *)
LoadFailPartial(i) ==
  /\ ops[i].phase = "fetch"
  /\ console' = [console EXCEPT !["load"] = @ + 1]
  /\ loading' = FALSE
  /\ narratives' = IF ops[i].req["narratives"] = "ok" THEN ops[i].resN ELSE narratives
  /\ dreams' = IF ops[i].req["dreams"] = "ok" THEN ops[i].resD ELSE dreams
  /\ stats' = IF ops[i].req["stats"] = "ok" THEN ops[i].resS ELSE stats
  /\ ops' = [ops EXCEPT ![i] = [NoOp EXCEPT !.phase = "done"]]
  /\ UNCHANGED <<activeTab, newInteraction, nextOp, srvNarratives, srvDreams, written>>

(* Mutation: the catch block without setLoading(false). *)
LoadFailStuck(i) ==
  /\ ops[i].phase = "fetch"
  /\ console' = [console EXCEPT !["load"] = @ + 1]
  /\ ops' = [ops EXCEPT ![i] = [NoOp EXCEPT !.phase = "done"]]
  /\ UNCHANGED <<narratives, dreams, stats, loading, activeTab, newInteraction,
                 nextOp, srvNarratives, srvDreams, written>>

(* loadMythosData when one of the three GETs fails (its request or its    *)
(* response is lost, or the status is not 2xx): Promise.all rejects, the  *)
(* catch block runs, and what the other two return is never looked at.    *)
LoadFail(i) ==
  /\ ops[i].phase = "fetch"
  /\ console' = [console EXCEPT !["load"] = @ + 1]
  /\ loading' = FALSE
  /\ ops' = [ops EXCEPT ![i] = Finish(@)]
  /\ UNCHANGED <<narratives, dreams, stats, activeTab, newInteraction,
                 nextOp, srvNarratives, srvDreams, written>>

(* processInteraction when the POST's response arrives, up to the await of the stats GET. *)
ProcessPostOk(i) ==
  /\ ops[i].kind = "process"
  /\ ops[i].phase = "post"
  /\ ops[i].req["process"] = "ok"
  /\ narratives' = Prepend(ops[i].resP, narratives)
  /\ newInteraction' = DefaultDraft
  /\ ops' = [ops EXCEPT ![i] = [@ EXCEPT !.phase = "stats",
                                         !.req = [NoReq EXCEPT !["stats"] = "pending"]]]
  /\ written' = [written EXCEPT !.op = i, !.by = "submit",
                                !.narratives = Prepend(ops[i].resP, narratives)]
  /\ UNCHANGED <<dreams, stats, loading, activeTab, nextOp, srvNarratives, srvDreams, console>>

(* Mutation: the draft is reset whether or not the POST succeeded. *)
ProcessPostFailReset(i) ==
  /\ ops[i].kind = "process"
  /\ ops[i].phase = "post"
  /\ console' = [console EXCEPT !["process"] = @ + 1]
  /\ newInteraction' = DefaultDraft
  /\ ops' = [ops EXCEPT ![i] = [NoOp EXCEPT !.phase = "done"]]
  /\ UNCHANGED <<narratives, dreams, stats, loading, activeTab,
                 nextOp, srvNarratives, srvDreams, written>>

(* processInteraction when the POST fails: the catch block. *)
ProcessPostFail(i) ==
  /\ ops[i].kind = "process"
  /\ ops[i].phase = "post"
  /\ console' = [console EXCEPT !["process"] = @ + 1]
  /\ ops' = [ops EXCEPT ![i] = Finish(@)]
  /\ UNCHANGED <<narratives, dreams, stats, loading, activeTab, newInteraction,
                 nextOp, srvNarratives, srvDreams, written>>

(* processInteraction when the stats response arrives: setStats(statsRes.data). *)
ProcessStatsOk(i) ==
  /\ ops[i].kind = "process"
  /\ ops[i].phase = "stats"
  /\ ops[i].req["stats"] = "ok"
  /\ stats' = SetStats(stats, ops[i].resS)
  /\ ops' = [ops EXCEPT ![i] = Finish(@)]
  /\ written' = [written EXCEPT !.op = i, !.by = "stats",
                                !.stats = ops[i].resS]
  /\ UNCHANGED <<narratives, dreams, loading, activeTab, newInteraction,
                 nextOp, srvNarratives, srvDreams, console>>

(* Mutation: the catch block undoes the prepend when the stats GET fails. *)
ProcessStatsFailRollback(i) ==
  /\ ops[i].kind = "process"
  /\ ops[i].phase = "stats"
  /\ console' = [console EXCEPT !["process"] = @ + 1]
  /\ narratives' = IF narratives = <<>> THEN narratives ELSE Tail(narratives)
  /\ ops' = [ops EXCEPT ![i] = Finish(@)]
  /\ UNCHANGED <<dreams, stats, loading, activeTab, newInteraction,
                 nextOp, srvNarratives, srvDreams, written>>

(* processInteraction when the stats GET fails: the same catch block. *)
ProcessStatsFail(i) ==
  /\ ops[i].kind = "process"
  /\ ops[i].phase = "stats"
  /\ console' = [console EXCEPT !["process"] = @ + 1]
  /\ ops' = [ops EXCEPT ![i] = Finish(@)]
  /\ UNCHANGED <<narratives, dreams, stats, loading, activeTab, newInteraction,
                 nextOp, srvNarratives, srvDreams, written>>

(* Mutation: generateDream refreshes the stats alone, as processInteraction does. *)
DreamPostOkStatsOnly(i) ==
  /\ ops[i].kind = "dream"
  /\ ops[i].phase = "post"
  /\ ops[i].req["dream"] = "ok"
  /\ dreams' = <<ops[i].resP>> \o dreams
  /\ ops' = [ops EXCEPT ![i] = [@ EXCEPT !.kind = "process", !.phase = "stats",
                                         !.req = [NoReq EXCEPT !["stats"] = "pending"]]]
  /\ written' = [written EXCEPT !.op = i, !.by = "dream",
                                !.dreams = <<ops[i].resP>> \o dreams]
  /\ UNCHANGED <<narratives, stats, loading, activeTab, newInteraction,
                 nextOp, srvNarratives, srvDreams, console>>

(* Mutation: generateDream raises the loading flag for its refresh. *)
DreamPostOkLoading(i) ==
  /\ ops[i].kind = "dream"
  /\ ops[i].phase = "post"
  /\ ops[i].req["dream"] = "ok"
  /\ dreams' = <<ops[i].resP>> \o dreams
  /\ loading' = TRUE
  /\ ops' = [ops EXCEPT ![i] = IssueLoad(@)]
  /\ written' = [written EXCEPT !.op = i, !.by = "dream",
                                !.dreams = <<ops[i].resP>> \o dreams]
  /\ UNCHANGED <<narratives, stats, activeTab, newInteraction,
                 nextOp, srvNarratives, srvDreams, console>>

(* generateDream when the POST's response arrives: prepend, then loadMythosData() unawaited. *)
DreamPostOk(i) ==
  /\ ops[i].kind = "dream"
  /\ ops[i].phase = "post"
  /\ ops[i].req["dream"] = "ok"
  /\ dreams' = Prepend(ops[i].resP, dreams)
  /\ ops' = [ops EXCEPT ![i] = IssueLoad(@)]
  /\ written' = [written EXCEPT !.op = i, !.by = "dream",
                                !.dreams = Prepend(ops[i].resP, dreams)]
  /\ UNCHANGED <<narratives, stats, loading, activeTab, newInteraction,
                 nextOp, srvNarratives, srvDreams, console>>

(* Mutation: the catch block of generateDream refreshes the console anyway. *)
DreamPostFailRefresh(i) ==
  /\ ops[i].kind = "dream"
  /\ ops[i].phase = "post"
  /\ console' = [console EXCEPT !["dream"] = @ + 1]
  /\ ops' = [ops EXCEPT ![i] = IssueLoad(@)]
  /\ UNCHANGED <<narratives, dreams, stats, loading, activeTab, newInteraction,
                 nextOp, srvNarratives, srvDreams, written>>

(* generateDream when the POST fails: the catch block. *)
DreamPostFail(i) ==
  /\ ops[i].kind = "dream"
  /\ ops[i].phase = "post"
  /\ console' = [console EXCEPT !["dream"] = @ + 1]
  /\ ops' = [ops EXCEPT ![i] = Finish(@)]
  /\ UNCHANGED <<narratives, dreams, stats, loading, activeTab, newInteraction,
                 nextOp, srvNarratives, srvDreams, written>>

(* The continuation of operation i that the arrival of a response resumes. *)
Succeed(i) ==
  \/ LoadOk(i)
  \/ ProcessPostOk(i)
  \/ ProcessStatsOk(i)
  \/ DreamPostOk(i)

(* The continuation of operation i that a failed gateway call resumes. *)
Fail(i) ==
  \/ LoadFail(i)
  \/ ProcessPostFail(i)
  \/ ProcessStatsFail(i)
  \/ DreamPostFail(i)

(* The remote service handles one pending call of operation i. *)
Resolve(i) == \E e \in Endpoints : ResolveGet(i, e) \/ ResolvePost(i, e)

Next ==
  \/ Mount
  \/ \E tab \in Tabs : SelectTab(tab)
  \/ \E value \in Texts : EditDraft("user_interaction", value)
  \/ \E value \in Texts : EditDraft("ai_response", value)
  \/ \E value \in Outcomes : EditDraft("outcome", value)
  \/ ProcessButton
  \/ DreamButton
  \/ CreateFirstNarrativeButton
  \/ FirstDreamButton
  \/ \E i \in OpIds : Resolve(i)
  \/ \E i \in OpIds : Succeed(i)
  \/ \E i \in OpIds : Fail(i)

Spec == Init /\ [][Next]_vars

(* Every gateway call is eventually answered or fails, and the event loop *)
(* runs the continuation of a settled promise.                            *)
FairSpec ==
  /\ Spec
  /\ WF_vars(Mount)
  /\ \A i \in OpIds : WF_vars(Resolve(i)) /\ WF_vars(Succeed(i) \/ Fail(i))

-----------------------------------------------------------------------------
(* Properties *)

Settled == \A i \in OpIds : ops[i].phase \in {"none", "done"}

NoErrors == \A m \in DOMAIN console : console[m] = 0

(* The step in which the refresh of operation i completes, by success or by failure. *)
LoadSucceeds(i) == ops[i].phase = "fetch" /\ ops'[i].phase = "done" /\ console' = console

LoadFails(i) == ops[i].phase = "fetch" /\ ops'[i].phase = "done" /\ console' # console

(* C1: when a bulk refresh fails, the step that completes it leaves narratives, *)
(* dreams and stats as they were, whatever its other fetches had returned, and  *)
(* the loading flag is false after it.                                          *)
C1_FailedRefreshChangesNothing ==
  [][\A i \in OpIds : LoadFails(i) =>
        /\ narratives' = narratives
        /\ dreams' = dreams
        /\ stats' = stats
        /\ loading' = FALSE]_vars

(* A refresh failed after two of its fetches had returned data the console does not show. *)
C1_Witness ==
  /\ console["load"] = 1
  /\ loading = FALSE
  /\ Settled
  /\ Len(dreams) = 1
  /\ stats = ServerStats(<<>>, <<>>)
  /\ Len(srvDreams) = 1

(* C2: the step that completes a bulk refresh whose three fetches succeeded leaves *)
(* narratives, dreams and stats equal to the three responses, stats replaced as a  *)
(* whole, and the loading flag false.                                              *)
C2_SuccessfulRefreshReplacesAll ==
  [][\A i \in OpIds : LoadSucceeds(i) =>
        /\ narratives' = ops[i].resN
        /\ dreams' = ops[i].resD
        /\ stats' = ops[i].resS
        /\ loading' = FALSE]_vars

(* A refresh replaced stats that had a dominant archetype by stats that have none. *)
C2_Witness ==
  /\ Settled
  /\ NoErrors
  /\ written.by = "load"
  /\ Len(narratives) = 1
  /\ DOMAIN stats = {"total_narratives", "total_dreams"}

(* C3: every step of a bulk refresh in flight either leaves narratives, dreams and *)
(* stats untouched or is its last step and replaces all of them, with the loading  *)
(* flag cleared: no state shows part of one refresh.                               *)
C3_RefreshAppliedAtomically ==
  [][\A i \in OpIds : (ops[i].phase = "fetch" /\ ops'[i] # ops[i]) =>
        \/ /\ narratives' = narratives
           /\ dreams' = dreams
           /\ stats' = stats
        \/ /\ ops'[i].phase = "done"
           /\ narratives' = ops[i].resN
           /\ dreams' = ops[i].resD
           /\ stats' = ops[i].resS
           /\ loading' = FALSE]_vars

(* The console is shown while a refresh holds two responses that differ from what is shown. *)
C3_Witness ==
  \E i \in OpIds :
    /\ ops[i].phase = "fetch"
    /\ loading = FALSE
    /\ ops[i].req["narratives"] = "ok"
    /\ ops[i].req["stats"] = "ok"
    /\ ops[i].req["dreams"] = "pending"
    /\ ops[i].resN # narratives
    /\ ops[i].resS # stats

(* C4: the continuation of a successful submission puts the returned fragment in  *)
(* front of the narrative list as it is then, resets the draft to its defaults    *)
(* and issues the stats GET and no other call; when that GET succeeds its         *)
(* response replaces stats.                                                       *)
C4_SubmissionSuccess ==
  [][\A i \in OpIds :
        /\ (ops[i].kind = "process" /\ ops[i].phase = "post" /\ ops'[i].phase = "stats") =>
              /\ ops[i].payload.user_interaction # ""
              /\ ops[i].payload.ai_response # ""
              /\ narratives' = <<ops[i].resP>> \o narratives
              /\ newInteraction' = DefaultDraft
              /\ ops'[i].req = [NoReq EXCEPT !["stats"] = "pending"]
              /\ UNCHANGED <<dreams, stats, loading, activeTab>>
        /\ (ops[i].phase = "stats" /\ ops'[i].phase = "done" /\ console' = console) =>
              /\ stats' = ops[i].resS
              /\ UNCHANGED <<narratives, dreams, loading, activeTab, newInteraction>>]_vars

(* A second fragment was put in front of the first and the stats GET is out. *)
C4_Witness ==
  \E i \in OpIds :
    /\ ops[i].kind = "process"
    /\ ops[i].phase = "stats"
    /\ ops[i].req["stats"] = "pending"
    /\ narratives = <<2, 1>>
    /\ newInteraction = DefaultDraft

(* C5: from a state in which user_interaction or ai_response of the draft is     *)
(* empty, no step issues POST /mythology/process: pressing the disabled button   *)
(* changes nothing.                                                              *)
C5_EmptyDraftNoSubmission ==
  [][(newInteraction.user_interaction = "" \/ newInteraction.ai_response = "") =>
        \A i \in OpIds : ops'[i].req["process"] = "pending" => ops[i].req["process"] = "pending"]_vars

(* The submission form is shown with one required field filled and the other empty. *)
C5_Witness ==
  /\ loading = FALSE
  /\ activeTab = "create"
  /\ newInteraction.user_interaction = "Hi"
  /\ newInteraction.ai_response = ""
  /\ nextOp <= MaxOps

(* C6: the step in which a submission ends on the failure of its POST changes    *)
(* no state field and issues no call.                                            *)
C6_SubmissionFailureChangesNothing ==
  [][\A i \in OpIds : (ops[i].kind = "process" /\ ops[i].phase = "post" /\ ops'[i].phase = "done") =>
        /\ UNCHANGED <<narratives, dreams, stats, loading, activeTab, newInteraction>>
        /\ ops'[i].req = NoReq]_vars

(* A submission failed and the draft still holds what was submitted. *)
C6_Witness ==
  /\ nextOp = 2
  /\ Settled
  /\ console["process"] = 1
  /\ narratives = <<>>
  /\ newInteraction.user_interaction = "Hi"
  /\ newInteraction.ai_response = "Hi"

(* C7: the continuation of a successful dream generation puts the returned dream *)
(* in front of the dream list as it is then and issues the three GETs of a bulk  *)
(* refresh.                                                                      *)
C7_DreamSuccess ==
  [][\A i \in OpIds : (ops[i].kind = "dream" /\ ops[i].phase = "post" /\ ops'[i] # ops[i]
                        /\ console' = console /\ ops[i].req["dream"] = "ok") =>
        /\ dreams' = <<ops[i].resP>> \o dreams
        /\ ops'[i].phase = "fetch"
        /\ \A e \in GetEndpoints : ops'[i].req[e] = "pending"
        /\ UNCHANGED <<narratives, stats, loading, activeTab, newInteraction>>]_vars

(* A second dream was put in front of the first and the three GETs are out. *)
C7_Witness ==
  \E i \in OpIds :
    /\ ops[i].phase = "fetch"
    /\ i > 0
    /\ \A e \in GetEndpoints : ops[i].req[e] = "pending"
    /\ dreams = <<2, 1>>

(* C8 as stated: the loading flag is true whenever a bulk refresh is in flight. *)
C8_LoadingDuringEveryRefresh ==
  \A i \in OpIds : ops[i].phase = "fetch" => loading = TRUE

(* C8 as amended: the loading flag is true exactly until the initial bulk refresh *)
(* has completed; it stays false while a refresh started by generateDream is in   *)
(* flight.                                                                        *)
C8_LoadingUntilInitialRefreshCompletes ==
  /\ loading = (ops[0].phase # "done")
  /\ \A i \in OpIds : (i > 0 /\ ops[i].phase = "fetch") => loading = FALSE

(* The refresh of a dream generation is in flight. *)
C8_Witness ==
  \E i \in OpIds : i > 0 /\ ops[i].phase = "fetch" /\ ops[i].req["stats"] = "ok"

(* C9: narratives, dreams and stats hold what the operation that completed last  *)
(* delivered for them, whichever operation was started first.                    *)
C9_LastWriterWins ==
  /\ narratives = written.narratives
  /\ dreams = written.dreams
  /\ stats = written.stats

(* A refresh that was started first completed last, and its older data stands. *)
C9_Witness ==
  /\ Settled
  /\ NoErrors
  /\ written.by = "load"
  /\ written.op = 1
  /\ nextOp = 3
  /\ stats # ServerStats(srvNarratives, srvDreams)

(* C10: whenever the loading flag is true it eventually becomes false. *)
C10_LoadingClears == (loading = TRUE) ~> (loading = FALSE)

(* The initial refresh failed and the console is shown. *)
C10_Witness ==
  /\ nextOp = 1
  /\ console["load"] = 1
  /\ loading = FALSE

RendererState == <<narratives, dreams, stats, loading, activeTab, newInteraction>>

(* C12: every failure of a gateway call is surfaced to the renderer: the step  *)
(* that reports a failure to the log sink also changes the renderer-visible    *)
(* state, so that the state after the failure differs from the state in which  *)
(* the call had not failed.                                                    *)
C12_FailureSurfaced ==
  [][console' # console => RendererState' # RendererState]_vars

(* Identifiers are assigned in creation order, so the most recently created    *)
(* item of a list is the one with the largest identifier.                      *)
NewestFirst(list) ==
  list # <<>> => \A k \in 1..Len(list) : list[k] <= list[1]

(* C13: in every reachable state the narrative list and the dream list have    *)
(* the most recently created item known to the client in first position.       *)
C13_NewestItemFirst ==
  NewestFirst(narratives) /\ NewestFirst(dreams)

(* C14: whenever the console is loaded, the Narratives tab is active and the   *)
(* narrative list is empty, the "no narratives yet" empty state is shown with  *)
(* a shortcut that can be activated and whose activation selects the Create    *)
(* tab and does nothing else; an empty dream list on the Dreams tab shows an   *)
(* empty state whose shortcut starts generateDream: one POST to the dream      *)
(* endpoint and no other change.                                               *)
C14_EmptyStateShortcuts ==
  /\ []((~loading /\ activeTab = "narratives" /\ narratives = <<>>) =>
          /\ {"no-narratives", "create-first-narrative"} \subseteq Rendered
          /\ ENABLED CreateFirstNarrativeButton)
  /\ []((~loading /\ activeTab = "dreams" /\ dreams = <<>>) =>
          /\ {"no-dreams", "first-dream"} \subseteq Rendered
          /\ nextOp <= MaxOps => ENABLED FirstDreamButton)
  /\ [][CreateFirstNarrativeButton =>
          /\ activeTab' = "create"
          /\ UNCHANGED <<narratives, dreams, stats, loading, newInteraction, ops, nextOp>>]_vars
  /\ [][FirstDreamButton =>
          /\ ops'[nextOp].kind = "dream"
          /\ ops'[nextOp].req = [NoReq EXCEPT !["dream"] = "pending"]
          /\ \A i \in OpIds \ {nextOp} : ops'[i] = ops[i]
          /\ UNCHANGED RendererState]_vars

(* The initial load returned empty lists and zero totals; the First Dream      *)
(* shortcut started a dream and the Create First Narrative shortcut then led   *)
(* to the Create tab.                                                          *)
C14_Witness ==
  /\ stats = [total_narratives |-> 0, total_dreams |-> 0]
  /\ narratives = <<>> /\ dreams = <<>>
  /\ activeTab = "create"
  /\ ops[1].kind = "dream" /\ ops[1].req["dream"] = "pending"

(* The order in which an operation passes through its awaits. *)
PhaseRank(phase) ==
  CASE phase = "none" -> 0
    [] phase = "post" -> 1
    [] phase \in {"stats", "fetch"} -> 2
    [] phase = "done" -> 3

(* C15: no failed gateway call causes further gateway calls. A step that       *)
(* reports a failure ends its operation with no call pending and starts no     *)
(* other operation; a failed dream generation in addition leaves every state   *)
(* field unchanged. An operation that has ended never issues a call again, and *)
(* a call is issued only from "not issued" on a step that moves its operation  *)
(* to a later await, so each intent makes at most one call per endpoint.       *)
C15_NoAutomaticRetries ==
  [][/\ \A i \in OpIds :
          /\ (console' # console /\ ops'[i] # ops[i]) =>
                /\ ops'[i].phase = "done"
                /\ ops'[i].req = NoReq
                /\ nextOp' = nextOp
                /\ \A j \in OpIds \ {i} : ops'[j] = ops[j]
          /\ ops[i].phase = "done" => ops'[i] = ops[i]
          /\ \A e \in Endpoints :
                (ops'[i].req[e] = "pending" /\ ops[i].req[e] # "pending") =>
                   /\ ops[i].req[e] = "none"
                   /\ PhaseRank(ops'[i].phase) > PhaseRank(ops[i].phase)
     /\ console'["dream"] # console["dream"] => UNCHANGED RendererState
    ]_vars

(* A dream generation and a submission have both failed at their POST, and     *)
(* nothing is in flight afterwards.                                            *)
C15_Witness ==
  /\ console = [load |-> 0, process |-> 1, dream |-> 1]
  /\ \A i \in OpIds : ops[i].phase = "done" /\ ops[i].req = NoReq
  /\ narratives = <<>> /\ dreams = <<>>

(* C16: a failure of the follow-up refresh never rolls back the mutation that  *)
(* preceded it. When the stats fetch of a submission fails, the narrative list *)
(* (with the prepended fragment), the reset draft and the stats are what they  *)
(* were; when the bulk refresh of a dream generation fails, the dream list     *)
(* (with the prepended dream at its head), the narratives and the stats are    *)
(* what they were.                                                             *)
C16_RefreshFailureKeepsMutation ==
  [][\A i \in OpIds :
       (console' # console /\ ops'[i] # ops[i] /\ ops[i].phase \in {"stats", "fetch"} /\ i > 0) =>
          UNCHANGED <<narratives, dreams, stats, newInteraction>>
    ]_vars

(* A submission whose stats fetch failed and a dream generation whose refresh  *)
(* failed: both items are in their lists, the draft is reset and the stats are *)
(* those of the initial load.                                                  *)
C16_Witness ==
  /\ console = [load |-> 1, process |-> 1, dream |-> 0]
  /\ narratives = <<1>> /\ dreams = <<1>>
  /\ newInteraction = DefaultDraft
  /\ stats = [total_narratives |-> 0, total_dreams |-> 0]
  /\ \A i \in OpIds : ops[i].phase = "done"

(* The identifiers held by a list. *)
Elems(list) == {list[k] : k \in 1..Len(list)}

(* C17: a fragment that a successful submission has prepended stays in the     *)
(* narrative list unless a bulk refresh started after the prepend replaces the *)
(* list. The service never deletes, so such a refresh is answered with a list  *)
(* that holds the fragment; hence the fragment of a submission that is waiting *)
(* for its stats is in the narrative list in every state.                      *)
C17_FragmentStays ==
  \A i \in OpIds :
    (ops[i].kind = "process" /\ ops[i].phase = "stats") => ops[i].resP \in Elems(narratives)

(* No identifier occurs twice in the list. *)
NoDuplicates(list) ==
  \A k, l \in 1..Len(list) : list[k] = list[l] => k = l

(* C18: the service assigns unique identifiers and answers each fetch with its *)
(* list as of some moment between request and response; no identifier ever     *)
(* appears twice in the client's narrative list or dream list.                 *)
C18_NoDuplicateIds ==
  NoDuplicates(narratives) /\ NoDuplicates(dreams)

(* C19: the loading flag is true only from mount until the initial bulk        *)
(* refresh completes and is never true again. While it is true the renderer    *)
(* shows the loading screen alone: the tab and the draft do not change, no     *)
(* submission or dream generation starts, and no write call is pending, so no  *)
(* write call overlaps the initial load.                                       *)
C19_LoadingOnlyInitially ==
  /\ [](loading => /\ ops[0].phase # "done"
                   /\ Rendered = {"loading-screen"}
                   /\ \A i \in OpIds : \A e \in PostEndpoints : ops[i].req[e] = "none")
  /\ [](ops[0].phase = "fetch" => \A i \in OpIds : \A e \in PostEndpoints : ops[i].req[e] = "none")
  /\ [][~loading => ~loading']_vars
  /\ [][loading => /\ activeTab' = activeTab
                   /\ newInteraction' = newInteraction
                   /\ \A i \in OpIds \ {0} : ops'[i] = NoOp]_vars

(* The initial load is in flight with one of its three responses received. *)
C19_Witness ==
  /\ loading
  /\ ops[0].phase = "fetch"
  /\ ops[0].req["narratives"] = "ok"
  /\ ops[0].req["stats"] = "pending"

(* C20: the draft changes only through editDraft and through the reset of a    *)
(* successful submission. The payload sent is the draft at the moment of the   *)
(* invocation; a failed submission leaves the draft, edits made in flight      *)
(* included, as it is; a successful one discards only the submitted content,   *)
(* so a draft edited while the submission was in flight is not lost; and the   *)
(* submission cannot be invoked again for the same draft while its submission  *)
(* is still in flight.                                                         *)
C20_DraftOnlyEditedOrReset ==
  [][\A i \in OpIds \ {0} :
       /\ (ops[i].phase = "none" /\ ops'[i].kind = "process") =>
             /\ ops'[i].payload = newInteraction
             /\ newInteraction' = newInteraction
             /\ \A j \in OpIds : ~(/\ ops[j].kind = "process"
                                   /\ ops[j].phase = "post"
                                   /\ ops[j].payload = newInteraction)
       /\ (ops[i].kind = "process" /\ ops[i].phase = "post" /\ ops'[i].phase = "done") =>
             newInteraction' = newInteraction
       /\ (ops[i].kind = "process" /\ ops[i].phase = "post" /\ ops'[i].phase = "stats") =>
             newInteraction' = IF newInteraction = ops[i].payload
                               THEN DefaultDraft ELSE newInteraction
    ]_vars

====
